---- MODULE Spec2Model ----
(***************************************************************************)
(* rusty_socks: a SOCKS5 proxy.  The acceptor loop (main.rs) admits a      *)
(* client by CIDR, leases a buffer from the BufferPool (buffer_pool.rs)    *)
(* and spawns a Connection handler (connection.rs) which negotiates the    *)
(* greeting and the request, dials the endpoint, replies, and runs the     *)
(* Pump (pump.rs; custom_pump.rs is the later revision of the same pump).  *)
(*                                                                         *)
(* Rust indices are 0-based, TLA+ sequences 1-based: data[i] is written    *)
(* data[i + 1] below.                                                      *)
(***************************************************************************)
EXTENDS Integers, Sequences, FiniteSets, TLC

\* ---------------------------------------------------------------- bounds
\* Number of handler tasks that may be live at the same time; the number of
\* clients served one after another is not bounded.
MaxConns == 2
\* Per-direction relay buffer size (main.rs: buffer_size, default 2048).
\* The pool allocates 2 * buffer_size bytes per slot.
buffer_size == 11
\* Number of bytes each peer may send during the relay.
MaxStream == 2
\* read_timeout, the configured timeout, in ticks of the model's clock.
read_timeout == 2

Conns == 1..MaxConns
Dirs == {"up", "down"}

Other(d) == IF d = "up" THEN "down" ELSE "up"

\* ------------------------------------------------------------ byte helpers
Min(a, b) == IF a < b THEN a ELSE b

\* &data[lo..hi] of Rust (0-based, hi exclusive); callers check the range.
Slice(data, lo, hi) == [i \in 1..(hi - lo) |-> data[lo + i]]

\* A read of msg into the buffer: the first Len(msg) bytes are overwritten,
\* the rest of the buffer keeps what it held.
Overwrite(buffer, msg) ==
    [i \in 1..Len(buffer) |-> IF i <= Len(msg) THEN msg[i] ELSE buffer[i]]

\* Overwrite at 0-based offset off.
OverwriteAt(buffer, off, msg) ==
    [i \in 1..Len(buffer) |->
        IF i > off /\ i <= off + Len(msg) THEN msg[i - off] ELSE buffer[i]]

IsPrefix(s, t) == Len(s) <= Len(t) /\ \A i \in 1..Len(s) : s[i] = t[i]

RECURSIVE Zeros(_)
Zeros(n) == IF n = 0 THEN <<>> ELSE <<0>> \o Zeros(n - 1)

\* ------------------------------------------------------- fixed-width integers
\* A u32 or u128 is the sequence of its bits, most significant first, so that
\* the width is kept exactly (2^32 and 2^128 do not fit the checker's integers).
OctetBits(b) ==
    << (b \div 128) % 2, (b \div 64) % 2, (b \div 32) % 2, (b \div 16) % 2,
       (b \div 8) % 2, (b \div 4) % 2, (b \div 2) % 2, b % 2 >>

RECURSIVE OctetsToBits(_)
OctetsToBits(data) ==
    IF data = <<>> THEN <<>>
    ELSE OctetBits(Head(data)) \o OctetsToBits(Tail(data))

Err(msg) == [ok |-> FALSE, err |-> msg]
Ok(v) == [ok |-> TRUE, val |-> v]

\* Helpers::slice_to_u32: (d0 << 24) + (d1 << 16) + (d2 << 8) + d3.
slice_to_u32(data) ==
    IF Len(data) # 4
    THEN Err("There must be exactly four (4) bytes for a conversion to an IPv4.")
    ELSE Ok(OctetsToBits(data))

\* Helpers::slice_to_u128.
slice_to_u128(data) ==
    IF Len(data) # 16
    THEN Err("There must be exactly sixteen (16) bytes for a conversion to an IPv6.")
    ELSE Ok(OctetsToBits(data))

BitAnd(x, y) == [i \in 1..Len(x) |-> IF x[i] = 1 /\ y[i] = 1 THEN 1 ELSE 0]
BitNot(x) == [i \in 1..Len(x) |-> 1 - x[i]]
AllZero(x) == \A i \in 1..Len(x) : x[i] = 0

\* (mutant) the power saturates at all ones instead of wrapping to 0.
saturating_pow2(e, w) == [i \in 1..w |-> IF w - i = e \/ e >= w THEN 1 ELSE 0]

\* 2uN.overflowing_pow(e).0 for a width of w bits: 2^e mod 2^w.
overflowing_pow2(e, w) == [i \in 1..w |-> IF w - i = e THEN 1 ELSE 0]

\* x.overflowing_sub(1).0: every bit from the lowest set bit down is flipped;
\* 0 wraps to all ones.
overflowing_sub1(x) ==
    LET w == Len(x)
        low == IF AllZero(x) THEN 0
               ELSE CHOOSE i \in 1..w : x[i] = 1 /\ \A j \in (i + 1)..w : x[j] = 0
    IN  [i \in 1..w |-> IF i >= low /\ low # 0 THEN 1 - x[i]
                        ELSE IF low = 0 THEN 1 ELSE x[i]]

\* ---------------------------------------------------------------- helpers.rs
\* Cidr::is_trivial.
is_trivial(cidr) == AllZero(cidr.mask)

\* (mutant) the address is not masked.
mask_ipv4_unmasked(ip, mask) == slice_to_u32(ip.octets)

\* Helpers::mask_ipv4 / mask_ipv6.
mask_ipv4(ip, mask) ==
    LET r == slice_to_u32(ip.octets) IN IF r.ok THEN Ok(BitAnd(r.val, mask)) ELSE r

mask_ipv6(ip, mask) ==
    LET r == slice_to_u128(ip.octets) IN IF r.ok THEN Ok(BitAnd(r.val, mask)) ELSE r

\* (mutant) every address passes.
is_ip_in_cidr_open(ip_addr, cidr) == Ok(TRUE)

\* Helpers::is_ip_in_cidr.
is_ip_in_cidr(ip_addr, cidr) ==
    IF cidr.fam = "V4"
    THEN IF ip_addr.fam = "V4"
         THEN LET r == mask_ipv4(ip_addr, cidr.mask)
              IN  IF r.ok THEN Ok(r.val = cidr.prefix) ELSE r
         ELSE Err("Cannot check IPv6 addresses against IPv4 CIDRs.")
    ELSE IF ip_addr.fam = "V6"
         THEN LET r == mask_ipv6(ip_addr, cidr.mask)
              IN  IF r.ok THEN Ok(r.val = cidr.prefix) ELSE r
         ELSE Err("Cannot check IPv4 addresses against IPv6 CIDRs.")

\* Helpers::parse_cidr, from the parsed address and the parsed prefix length.
parse_cidr(ip_addr, num_mask_bits) ==
    IF ip_addr.fam = "V4"
    THEN IF num_mask_bits > 32
         THEN Err("An IPv4 CIDR prefix must have a mask bit length less than or equal to 32.")
         ELSE LET mask == BitNot(overflowing_sub1(overflowing_pow2(32 - num_mask_bits, 32)))
                  r == slice_to_u32(ip_addr.octets)
              IN  IF r.ok
                  THEN Ok([fam |-> "V4", prefix |-> BitAnd(r.val, mask), mask |-> mask])
                  ELSE r
    ELSE IF num_mask_bits > 128
         THEN Err("An IPv4 CIDR prefix must have a mask bit length less than or equal to 128.")
         ELSE LET mask == BitNot(overflowing_sub1(overflowing_pow2(128 - num_mask_bits, 128)))
                  r == slice_to_u128(ip_addr.octets)
              IN  IF r.ok
                  THEN Ok([fam |-> "V6", prefix |-> BitAnd(r.val, mask), mask |-> mask])
                  ELSE r

\* (mutant) the low byte first.
port_to_bytes_low_first(port) == << port % 256, port \div 256 >>

\* Helpers::port_to_bytes.
port_to_bytes(port) == << port \div 256, port % 256 >>

\* Helpers::bytes_to_port.
bytes_to_port(data) ==
    IF Len(data) # 2
    THEN Err("There must be exactly two (2) bytes for a conversion to a port.")
    ELSE Ok((data[1] * 256 + data[2]) % 65536)

\* Helpers::get_socks_reply.
get_socks_reply(error) ==
    CASE error = 0 -> 0
      [] error \in {10050, 10051} -> 3
      [] error \in {10064, 11001, 10065} -> 4
      [] error = 10061 -> 5
      [] error = 10060 -> 6
      [] OTHER -> 1

\* Helpers::write_octets.
write_octets(buffer, off, octets) == OverwriteAt(buffer, off, octets)

\* ------------------------------------------------------------ buffer_pool.rs
\* The pool is (buffers, strong_count): each slot's bytes and the strong
\* count of its Arc (1 for the pool's own reference, +1 per Buffer handle).

\* (mutant) the scan with the comparison off by one: ref_count < 3.
FindUnleasedOffByOne(counts) ==
    IF \E k \in 1..Len(counts) : counts[k] < 3
    THEN CHOOSE k \in 1..Len(counts) :
            counts[k] < 3 /\ \A j \in 1..(k - 1) : counts[j] >= 3
    ELSE 0

\* (mutant) the scan keeps the last unleased slot instead of breaking at the
\* first.
FindUnleasedLast(counts) ==
    IF \E k \in 1..Len(counts) : counts[k] < 2
    THEN CHOOSE k \in 1..Len(counts) :
            counts[k] < 2 /\ \A j \in (k + 1)..Len(counts) : counts[j] >= 2
    ELSE 0

\* The scan of BufferPool::lease: the first slot whose strong count is < 2,
\* 0 for None.
FindUnleased(counts) ==
    IF \E k \in 1..Len(counts) : counts[k] < 2
    THEN CHOOSE k \in 1..Len(counts) :
            counts[k] < 2 /\ \A j \in 1..(k - 1) : counts[j] >= 2
    ELSE 0

\* (mutant) the slot is handed out without a clone of its Arc: the strong
\* count stays.
lease_uncounted(bufs, counts) ==
    LET found == FindUnleased(counts)
        index == IF found = 0 THEN Len(bufs) + 1 ELSE found
    IN  [index |-> index,
         buffers |-> IF found = 0 THEN Append(bufs, Zeros(2 * buffer_size)) ELSE bufs,
         strong_count |-> IF found = 0 THEN Append(counts, 1) ELSE counts]

\* BufferPool::lease: the index handed out and the pool afterwards.
lease(bufs, counts) ==
    LET found == FindUnleased(counts)
        index == IF found = 0 THEN Len(bufs) + 1 ELSE found
        bufs1 == IF found = 0 THEN Append(bufs, Zeros(2 * buffer_size)) ELSE bufs
        counts1 == IF found = 0 THEN Append(counts, 1) ELSE counts
    IN  [index |-> index,
         buffers |-> bufs1,
         strong_count |-> [counts1 EXCEPT ![index] = @ + 1]]

\* (mutant) the pool's own reference counted as a lease: strong_count >= 1.
leased_count_own(counts) == Cardinality({k \in 1..Len(counts) : counts[k] >= 1})

\* BufferPool::leased_count and total_count.
leased_count(counts) == Cardinality({k \in 1..Len(counts) : counts[k] >= 2})
total_count(bufs) == Len(bufs)

\* (mutant) the handle is kept alive: the count stays.
DropBufferLeak(counts, index) == counts

\* Drop of a Buffer handle: the Arc's strong count goes down by one.
DropBuffer(counts, index) == [counts EXCEPT ![index] = @ - 1]

\* -------------------------------------------------------------- handshake.rs
\* Handshake::from_data.  The slice is taken from the whole buffer, not from
\* the bytes the read delivered; data[2..2 + num_methods] panics when it runs
\* past the end of the buffer.
Handshake_from_data(data) ==
    IF Len(data) < 2 \/ 2 + data[2] > Len(data)
    THEN [panic |-> TRUE]
    ELSE [panic |-> FALSE,
          version |-> data[1],
          num_methods |-> data[2],
          methods |-> Slice(data, 2, 2 + data[2])]

\* ---------------------------------------------------------------- request.rs
\* std::str::from_utf8: well-formed UTF-8 (Unicode table 3-7).
IsCont(b) == b >= 128 /\ b <= 191

RECURSIVE from_utf8_ok(_)
from_utf8_ok(s) ==
    IF s = <<>> THEN TRUE
    ELSE LET b == s[1] n == Len(s) IN
         CASE b <= 127 -> from_utf8_ok(Tail(s))
           [] b >= 194 /\ b <= 223 ->
                n >= 2 /\ IsCont(s[2]) /\ from_utf8_ok(SubSeq(s, 3, n))
           [] b >= 224 /\ b <= 239 ->
                /\ n >= 3
                /\ IsCont(s[2]) /\ IsCont(s[3])
                /\ (b = 224 => s[2] >= 160)
                /\ (b = 237 => s[2] <= 159)
                /\ from_utf8_ok(SubSeq(s, 4, n))
           [] b >= 240 /\ b <= 244 ->
                /\ n >= 4
                /\ IsCont(s[2]) /\ IsCont(s[3]) /\ IsCont(s[4])
                /\ (b = 240 => s[2] >= 144)
                /\ (b = 244 => s[2] <= 143)
                /\ from_utf8_ok(SubSeq(s, 5, n))
           [] OTHER -> FALSE

\* Request::from_data: kind "ok" with the request, "err" (an Err result) or
\* "panic" (a slice or an index past the end of the buffer).
Request_from_data(data) ==
    LET n == Len(data) IN
    IF n < 4 THEN [kind |-> "panic"]
    ELSE
    LET version == data[1]
        command == data[2]
        reserved == data[3]
        address_type == data[4]
        req(port, dest) ==
            [kind |-> "ok", version |-> version, command |-> command,
             reserved |-> reserved, address_type |-> address_type,
             port |-> port, destination |-> dest]
    IN
    CASE address_type = 1 ->
           IF n < 10 THEN [kind |-> "panic"]
           ELSE LET a == slice_to_u32(Slice(data, 4, 8))
                    p == bytes_to_port(Slice(data, 8, 10))
                IN  IF ~a.ok \/ ~p.ok THEN [kind |-> "err"]
                    ELSE req(p.val, [kind |-> "Ipv4Addr", octets |-> Slice(data, 4, 8)])
      [] address_type = 3 ->
           IF n < 5 THEN [kind |-> "panic"]
           ELSE LET name_length == data[5] IN
                IF 5 + name_length > n THEN [kind |-> "panic"]
                ELSE IF ~from_utf8_ok(Slice(data, 5, 5 + name_length))
                THEN [kind |-> "err"]
                ELSE IF 5 + name_length + 2 > n THEN [kind |-> "panic"]
                ELSE LET p == bytes_to_port(Slice(data, 5 + name_length, 5 + name_length + 2))
                     IN  IF ~p.ok THEN [kind |-> "err"]
                         ELSE req(p.val, [kind |-> "Domain",
                                          name |-> Slice(data, 5, 5 + name_length)])
      [] address_type = 4 ->
           IF n < 22 THEN [kind |-> "panic"]
           ELSE LET a == slice_to_u128(Slice(data, 4, 20))
                    p == bytes_to_port(Slice(data, 20, 22))
                IN  IF ~a.ok \/ ~p.ok THEN [kind |-> "err"]
                    ELSE req(p.val, [kind |-> "Ipv6Addr", octets |-> Slice(data, 4, 20)])
      [] OTHER -> [kind |-> "err"]

\* ------------------------------------------------------------------- state
VARIABLES
    main,           \* the acceptor loop of main.rs: "running", or the error
                    \* main returned with
    cidr,           \* main.rs: cidr, the parsed accept_cidr
    endpoint_ip,    \* main.rs: endpoint_ip, the egress bind address
    buffers,        \* BufferPool.buffers: the bytes of each slot
    strong_count,   \* Arc::strong_count of each slot
    conn,           \* per task: its Connection and the handler task's position
    pump,           \* per task: the Pump of its relay
    call            \* a call of a function of Helpers on its own: the
                    \* arguments and, once it returned, the result

vars == << main, cidr, endpoint_ip, buffers, strong_count, conn, pump, call >>

\* ------------------------------------------------------------- environment
V4(a, b, c, d) == [fam |-> "V4", octets |-> << a, b, c, d >>]
V6(hi, lo) == [fam |-> "V6", octets |-> << hi >> \o Zeros(14) \o << lo >>]

\* accept_cidr values: the default "0.0.0.0/0", "10.0.0.0/8" and "fd00::/8".
CidrConfigs ==
    { [ip |-> V4(0, 0, 0, 0), bits |-> 0],
      [ip |-> V4(10, 0, 0, 0), bits |-> 8],
      [ip |-> V6(253, 0), bits |-> 8] }

\* endpoint_ip values: the default "0.0.0.0", or the first address of the
\* configured interface, which may be an IPv6 address.
EndpointIps == { V4(0, 0, 0, 0), V6(254, 1) }

\* Peer addresses of accepted clients.
PeerIps == { V4(10, 0, 0, 1), V4(192, 168, 1, 1), V6(253, 1) }

\* What the first read of a client may deliver.
Greetings ==
    { <<>>,                 \* peer closed
      << 5, 1, 0 >>,        \* one method
      << 5, 0 >>,           \* no method
      << 5, 2, 0, 2 >>,     \* two methods
      << 4, 1, 0 >>,        \* SOCKS4
      << 5 >>,              \* truncated after the version
      << 5, 2, 0 >>,        \* truncated: two methods announced, one sent
      << 5, 255 >> }        \* truncated: 255 methods announced

\* What the second read of a client may deliver.
Requests ==
    { <<>>,
      << 5, 1, 0, 1, 127, 0, 0, 1, 0, 80 >>,            \* CONNECT 127.0.0.1:80
      << 5, 1, 0, 3, 1, 97, 0, 80 >>,                   \* CONNECT "a":80
      << 5, 1, 0, 4 >> \o Zeros(15) \o << 1, 0, 80 >>,  \* CONNECT [::1]:80
      << 5, 2, 0, 1, 127, 0, 0, 1, 0, 80 >>,            \* BIND
      << 5, 3, 0, 1, 127, 0, 0, 1, 0, 80 >>,            \* UDP ASSOCIATE
      << 5, 9, 0, 1, 127, 0, 0, 1, 0, 80 >>,            \* unknown command
      << 4, 1, 0, 1, 127, 0, 0, 1, 0, 80 >>,            \* version 4
      << 5, 1, 0, 1, 127 >>,                            \* truncated IPv4
      << 5, 1, 0, 3, 3, 97 >>,                          \* truncated domain
      << 5, 1, 0, 2, 127, 0, 0, 1, 0, 80 >>,            \* unknown address type
      << 5, 1, 0, 3, 1, 255, 0, 80 >>,                  \* domain not UTF-8
      << 5, 1, 0, 3, 200 >> }                           \* domain longer than buffer

\* raw_os_error values of a failed resolution or connect: the WinSock numbers
\* of get_socks_reply, their POSIX counterparts (ENETUNREACH 101,
\* EHOSTUNREACH 113, ECONNREFUSED 111, ETIMEDOUT 110) and EACCES 13.
OsErrors == { 10050, 10051, 10064, 11001, 10065, 10061, 10060,
              101, 113, 111, 110, 13 }

\* raw_os_error of connecting an AF_INET socket to an IPv6 address
\* (EINVAL, EAFNOSUPPORT, WSAEAFNOSUPPORT).
FamilyErrors == { 22, 97, 10047 }

\* A result of io: "ok" with a value, "os" with raw_os_error Some(i), or
\* "noos" (an io::Error whose raw_os_error is None).
IoOk(v) == [kind |-> "ok", val |-> v]
IoOs(i) == [kind |-> "os", errno |-> i]
IoNoOs == [kind |-> "noos"]

\* The environment a specification runs the program in: what the clients,
\* the resolver and the endpoints may do, and whether clients overlap.
\* HandlerEnv: clients come one after another (each reuses the slot, and the
\* bytes, its predecessor left) and send any greeting and any request.
HandlerEnv ==
    [ greetings |-> Greetings,
      requests |-> Requests,
      oserrors |-> OsErrors,
      cidrs |-> { [ip |-> V4(0, 0, 0, 0), bits |-> 0] },
      endpoint_ips |-> EndpointIps,
      peers |-> { V4(10, 0, 0, 1) },
      pumps |-> { "pump", "custom_pump" },
      relay |-> { "timeout", "eof", "err", "data" },
      stream |-> 1,
      overlap |-> FALSE ]

\* PumpEnv: clients that negotiate a CONNECT and relay up to MaxStream bytes
\* in each direction.
PumpEnv ==
    [ greetings |-> { << 5, 1, 0 >> },
      requests |-> { << 5, 1, 0, 1, 127, 0, 0, 1, 0, 80 >> },
      oserrors |-> { 10061 },
      cidrs |-> { [ip |-> V4(0, 0, 0, 0), bits |-> 0] },
      endpoint_ips |-> { V4(0, 0, 0, 0) },
      peers |-> { V4(10, 0, 0, 1) },
      pumps |-> { "pump", "custom_pump" },
      relay |-> { "timeout", "eof", "err", "data" },
      stream |-> MaxStream,
      overlap |-> FALSE ]

\* PoolEnv: up to MaxConns clients at the same time; each may fail at any
\* step or reach the relay, where its peers send nothing and close.
PoolEnv ==
    [ greetings |-> { << 5, 1, 0 >> },
      requests |-> { << 5, 1, 0, 1, 127, 0, 0, 1, 0, 80 >> },
      oserrors |-> { 10061 },
      cidrs |-> { [ip |-> V4(0, 0, 0, 0), bits |-> 0] },
      endpoint_ips |-> { V4(0, 0, 0, 0) },
      peers |-> { V4(10, 0, 0, 1) },
      pumps |-> { "pump" },
      relay |-> { "eof" },
      stream |-> 0,
      overlap |-> TRUE ]

\* The bytes a relay peer sends: position-coded, so that a dropped, repeated
\* or reordered byte shows.
StreamByte(d, i) == (IF d = "up" THEN 100 ELSE 200) + i
StreamPrefix(d, n) == [i \in 1..n |-> StreamByte(d, i)]

\* string_to_connect.to_socket_addrs(): an address literal parses or resolves
\* to itself, a domain name goes to the resolver.
Resolutions(destination, env) ==
    CASE destination.kind = "Ipv4Addr" -> { IoOk(<< "V4" >>) }
      [] destination.kind = "Ipv6Addr" -> { IoOk(<< "V6" >>) }
      [] OTHER ->
            { IoOk(<< "V4" >>), IoOk(<< "V6" >>), IoOk(<< "V6", "V4" >>), IoNoOs }
            \cup { IoOs(i) : i \in env.oserrors }

\* TcpStream::connect_std of the IPv4 socket to endpoint_addr.
Connects(endpoint_addr, env) ==
    IF endpoint_addr = "V4"
    THEN { IoOk("connected"), IoNoOs } \cup { IoOs(i) : i \in env.oserrors }
    ELSE { IoOs(i) : i \in FamilyErrors }

\* ---------------------------------------------------------------- the state
NoRequest == [kind |-> "none"]

NoConn ==
    [ pc |-> "none", ip |-> [fam |-> "none", octets |-> << >>], slot |-> 0, locked |-> FALSE,
      client_socket |-> "none", endpoint_socket |-> "none",
      greeting |-> << >>, reqmsg |-> << >>, request |-> NoRequest,
      resolved |-> "none", addrs |-> << >>, dialed |-> "none", bound |-> "none",
      error |-> 0, endpoint_addr_option |-> "None", reply_length |-> 0,
      out |-> << >>, exit |-> "" ]

\* One direction of the relay.  timer tells the delay_for of this loop
\* iteration from the one of the iteration before (each iteration arms a new
\* one), so that waiting again after a timeout is a step of its own.
NoDir == [ pc |-> "idle", read |-> 0, rd |-> << >>, wr |-> << >>,
           ev |-> "none", chan |-> "open", write_failed |-> FALSE,
           timer |-> 0 ]

NoPump == [ impl |-> "none", dir |-> [d \in Dirs |-> NoDir], elapsed |-> 0, idle |-> 0 ]

Live(c) == conn[c].pc \notin { "none", "rejected", "ended" }

NoCall == [fn |-> "none"]

InitWith(env) ==
    /\ main = "running"
    /\ call = NoCall
    /\ cidr \in { parse_cidr(cfg.ip, cfg.bits).val : cfg \in env.cidrs }
    /\ endpoint_ip \in env.endpoint_ips
    /\ buffers = << >>
    /\ strong_count = << >>
    /\ conn = [c \in Conns |-> NoConn]
    /\ pump = [c \in Conns |-> NoPump]

Init == InitWith(HandlerEnv)

\* ------------------------------------------------------------ task endings
\* The handler task ends (handle_task returned, or panicked and unwound):
\* the Connection is dropped, which closes the client socket, drops the
\* Buffer handle and releases the MutexGuard; an egress socket is dropped too.
Dropped(k, why) ==
    [ k EXCEPT !.pc = "ended",
               !.exit = why,
               !.locked = FALSE,
               !.client_socket = "closed",
               !.endpoint_socket = IF @ = "none" THEN "none" ELSE "closed" ]

\* connection.rs: every return and every panic of handle_task.
End(c, k, why, bufs) ==
    /\ conn' = [conn EXCEPT ![c] = Dropped(k, why)]
    /\ strong_count' = DropBuffer(strong_count, k.slot)
    /\ buffers' = bufs

\* main returned Err(why): the runtime is dropped and with it every spawned
\* task.
ExitMain(why) ==
    /\ main' = why
    /\ conn' = [c \in Conns |->
                  IF Live(c) THEN Dropped(conn[c], "runtime dropped") ELSE conn[c]]
    /\ strong_count' =
          [k \in 1..Len(strong_count) |->
              strong_count[k] - Cardinality({c \in Conns : Live(c) /\ conn[c].slot = k})]
    /\ pump' = [c \in Conns |->
                  IF Live(c)
                  THEN [pump[c] EXCEPT !.dir = [d \in Dirs |->
                            [pump[c].dir[d] EXCEPT !.pc = IF @ = "idle" THEN @ ELSE "done"]]]
                  ELSE pump[c]]

\* ------------------------------------------------------------------ main.rs
\* One iteration of the server loop: accept, admission, lease, spawn.  The
\* new task takes the place of a finished one (c): what the model remembered
\* of that task is forgotten.
Accept(env) ==
    /\ main = "running"
    /\ \E c \in Conns : ~Live(c)
    /\ env.overlap \/ \A c \in Conns : ~Live(c)
    /\ UNCHANGED << cidr, endpoint_ip, call >>
    /\ \/ \* listener.accept().await? or stream.peer_addr()? failed
          /\ ExitMain("accept error")
          /\ UNCHANGED buffers
       \/ \E ip \in env.peers :
            LET c == CHOOSE i \in Conns : ~Live(i) /\ \A j \in 1..(i - 1) : Live(j)
                admitted == IF is_trivial(cidr) THEN Ok(TRUE) ELSE is_ip_in_cidr(ip, cidr)
            IN  IF ~admitted.ok
                THEN \* is_ip_in_cidr(..)? returned Err: main returns
                     /\ ExitMain(admitted.err)
                     /\ UNCHANGED buffers
                ELSE IF ~admitted.val
                THEN \* stream.shutdown(Shutdown::Both); continue
                     /\ conn' = [conn EXCEPT ![c] =
                            [NoConn EXCEPT !.pc = "rejected", !.ip = ip,
                                           !.client_socket = "closed",
                                           !.exit = "shutdown at admission"]]
                     /\ pump' = [pump EXCEPT ![c] = NoPump]
                     /\ UNCHANGED << main, buffers, strong_count >>
                ELSE \* Connection::from(stream, .., pool.lease(), ..).handle()
                     LET l == lease(buffers, strong_count) IN
                     /\ buffers' = l.buffers
                     /\ strong_count' = l.strong_count
                     /\ conn' = [conn EXCEPT ![c] =
                            [NoConn EXCEPT !.pc = "hs_read", !.ip = ip, !.slot = l.index,
                                           !.client_socket = "open"]]
                     /\ pump' = [pump EXCEPT ![c] = NoPump]
                     /\ UNCHANGED main

\* ------------------------------------------------------------ connection.rs
SetBuf(c, bytes) == [buffers EXCEPT ![conn[c].slot] = bytes]

\* (mutant) buffer[1] = 0x00 forgotten: the client's num_methods stays.
MethodSelectionStale(data) == Overwrite(data, << 5 >>)

\* perform_handshake: buffer[0] = 0x05; buffer[1] = 0x00.
MethodSelection(data) == Overwrite(data, << 5, 0 >>)

\* handle_task up to the first read of perform_handshake, and the code after
\* it up to the write: self.buffer.get().await takes the slot's lock, the
\* read fills the front of the buffer, Handshake::from_data parses the
\* buffer, and buffer[0..2] becomes the method selection.
HandshakeRead(c, env) ==
    /\ conn[c].pc = "hs_read"
    /\ \A o \in Conns : ~(conn[o].locked /\ conn[o].slot = conn[c].slot)
    /\ UNCHANGED << main, cidr, endpoint_ip, pump, call >>
    /\ LET k == [conn[c] EXCEPT !.locked = TRUE] IN
       \/ \* client_socket.read(buffer).await? failed
          End(c, k, "handshake read error", buffers)
       \/ \E msg \in env.greetings :
            LET data == Overwrite(buffers[k.slot], msg)
                read == Min(Len(msg), Len(data))
                k1 == [k EXCEPT !.greeting = msg]
                handshake == Handshake_from_data(data)
            IN  IF read = 0
                THEN End(c, k1, "Read 0 bytes during handshake.", SetBuf(c, data))
                ELSE IF handshake.panic
                THEN End(c, k1, "panic: handshake slice", SetBuf(c, data))
                ELSE IF handshake.version # 5
                THEN End(c, k1, "Bad SOCKS version.", SetBuf(c, data))
                ELSE /\ conn' = [conn EXCEPT ![c] = [k1 EXCEPT !.pc = "hs_write"]]
                     /\ buffers' = SetBuf(c, MethodSelection(data))
                     /\ UNCHANGED strong_count

\* (mutant) the request is read without the method selection having been
\* written.
HandshakeWriteSkipped(c) ==
    /\ conn[c].pc = "hs_write"
    /\ UNCHANGED << main, cidr, endpoint_ip, pump, call >>
    /\ \/ End(c, conn[c], "handshake write error", buffers)
       \/ /\ conn' = [conn EXCEPT ![c] = [@ EXCEPT !.pc = "req_read"]]
          /\ UNCHANGED << buffers, strong_count >>

\* client_socket.write(&buffer[..2]).await? of perform_handshake.
HandshakeWrite(c) ==
    /\ conn[c].pc = "hs_write"
    /\ UNCHANGED << main, cidr, endpoint_ip, pump, call >>
    /\ \/ End(c, conn[c], "handshake write error", buffers)
       \/ /\ conn' = [conn EXCEPT ![c] =
                [@ EXCEPT !.pc = "req_read",
                          !.out = Append(@, Slice(buffers[conn[c].slot], 0, 2))]]
          /\ UNCHANGED << buffers, strong_count >>

\* The reply establish_connect_request composes in the buffer, and its length.
ComposeReply(buffer, error, local_ip, local_port) ==
    LET port == port_to_bytes(local_port)
        reply_field == get_socks_reply(error)
        head == Overwrite(buffer, << 5, reply_field, 0 >>)
    IN  IF local_ip.fam = "V4"
        THEN [ reply_length |-> 10,
               buffer |-> OverwriteAt(
                            write_octets(OverwriteAt(head, 3, << 1 >>), 4, local_ip.octets),
                            8, port) ]
        ELSE [ reply_length |-> 22,
               buffer |-> OverwriteAt(
                            write_octets(OverwriteAt(head, 3, << 4 >>), 4, local_ip.octets),
                            20, port) ]

\* SocketAddr::from_str(format!("{}:{}", endpoint_interface, 0)): an IPv6
\* address followed by ":0" is no socket address (it lacks the brackets).
local_addr_ok(ip) == ip.fam = "V4"

\* The error number establish_connect_request keeps from a failed io result.
raw_os_error_or_0(r) == IF r.kind = "os" THEN r.errno ELSE 0

\* (mutant) BIND is served like CONNECT.
match_command_bind(command) ==
    CASE command \in { 1, 2 } -> "CONNECT"
      [] command = 3 -> "UDP ASSOCIATE requests not supported."
      [] OTHER -> "Unknown command type."

\* match request.command of handle_task: CONNECT goes on, any other command
\* returns the error named.
match_command(command) ==
    CASE command = 1 -> "CONNECT"
      [] command = 2 -> "BIND requests not supported."
      [] command = 3 -> "UDP ASSOCIATE requests not supported."
      [] OTHER -> "Unknown command type."

\* perform_request_negotiation, the dispatch on request.command, and
\* establish_connect_request up to the connect: local address, resolution
\* of the destination, bind of the IPv4 socket.
RequestRead(c, env) ==
    /\ conn[c].pc = "req_read"
    /\ UNCHANGED << main, cidr, endpoint_ip, pump, call >>
    /\ \/ End(c, conn[c], "request read error", buffers)
       \/ \E msg \in env.requests :
            LET data == Overwrite(buffers[conn[c].slot], msg)
                read == Min(Len(msg), Len(data))
                k == [conn[c] EXCEPT !.reqmsg = msg]
                request == Request_from_data(data)
                k1 == [k EXCEPT !.request = request]
            IN  IF read = 0
                THEN End(c, k, "Read 0 bytes during connection negotiation.", SetBuf(c, data))
                ELSE IF request.kind = "panic"
                THEN End(c, k, "panic: request slice", SetBuf(c, data))
                ELSE IF request.kind = "err"
                THEN End(c, k, "request parse error", SetBuf(c, data))
                ELSE IF match_command(request.command) # "CONNECT"
                THEN End(c, k1, match_command(request.command), SetBuf(c, data))
                ELSE IF ~local_addr_ok(endpoint_ip)
                THEN End(c, k1, "local address parse error", SetBuf(c, data))
                ELSE \E res \in Resolutions(request.destination, env) :
                     LET k2 == [k1 EXCEPT
                                  !.resolved = res.kind,
                                  !.addrs = IF res.kind = "ok" THEN res.val ELSE << >>,
                                  !.error = raw_os_error_or_0(res),
                                  !.endpoint_addr_option =
                                      IF res.kind = "ok" THEN res.val[1] ELSE "None"]
                     IN
                     \/ \* TcpBuilder::new_v4()?.bind(local_addr)?.to_tcp_stream()? failed
                        End(c, [k2 EXCEPT !.bound = "failed"], "bind error", SetBuf(c, data))
                     \/ IF k2.endpoint_addr_option # "None"
                        THEN /\ conn' = [conn EXCEPT ![c] =
                                   [k2 EXCEPT !.pc = "dial", !.bound = "ok",
                                              !.endpoint_socket = "bound"]]
                             /\ buffers' = SetBuf(c, data)
                             /\ UNCHANGED strong_count
                        ELSE \* no connect: standard_stream stays unused until the return
                             LET r == ComposeReply(data, k2.error, endpoint_ip, 0) IN
                             /\ conn' = [conn EXCEPT ![c] =
                                   [k2 EXCEPT !.pc = "reply_write", !.bound = "ok",
                                              !.endpoint_socket = "bound",
                                              !.reply_length = r.reply_length]]
                             /\ buffers' = SetBuf(c, r.buffer)
                             /\ UNCHANGED strong_count

\* TcpStream::connect_std(..).await and the composition of the reply.
Dial(c, env) ==
    /\ conn[c].pc = "dial"
    /\ UNCHANGED << main, cidr, endpoint_ip, pump, strong_count, call >>
    /\ \E res \in Connects(conn[c].endpoint_addr_option, env) :
         LET error == IF res.kind = "ok" THEN conn[c].error ELSE raw_os_error_or_0(res)
             r == ComposeReply(buffers[conn[c].slot], error, endpoint_ip, 0)
         IN  /\ conn' = [conn EXCEPT ![c] =
                   [@ EXCEPT !.pc = "reply_write",
                             !.dialed = res.kind,
                             !.error = error,
                             !.endpoint_socket =
                                 IF res.kind = "ok" THEN "connected" ELSE "closed",
                             !.reply_length = r.reply_length]]
             /\ buffers' = SetBuf(c, r.buffer)

\* The pump a handler starts: Pump::from(..).start() with both directions
\* at their first select.
StartedPump(impl) ==
    [ impl |-> impl, dir |-> [d \in Dirs |-> [NoDir EXCEPT !.pc = "select"]],
      elapsed |-> 0, idle |-> 0 ]

\* client_socket.write(&buffer[0..reply_length]).await? and the rest of
\* handle_task up to the start of the pump.
ReplyWrite(c, env) ==
    /\ conn[c].pc = "reply_write"
    /\ UNCHANGED << main, cidr, endpoint_ip, call >>
    /\ \/ /\ End(c, conn[c], "reply write error", buffers)
          /\ UNCHANGED pump
       \/ LET k == [conn[c] EXCEPT
                      !.out = Append(@, Slice(buffers[conn[c].slot], 0, conn[c].reply_length))]
          IN  IF k.error # 0
              THEN /\ End(c, k, "failed gracefully", buffers)
                   /\ UNCHANGED pump
              ELSE IF k.dialed # "ok"
              THEN \* endpoint_socket.unwrap() on None
                   /\ End(c, k, "panic: unwrap on None", buffers)
                   /\ UNCHANGED pump
              ELSE \/ \* peer_addr()? or local_addr()? of a socket failed
                      /\ End(c, k, "socket address error", buffers)
                      /\ UNCHANGED pump
                   \/ \E impl \in env.pumps :
                        /\ conn' = [conn EXCEPT ![c] = [k EXCEPT !.pc = "pump"]]
                        /\ pump' = [pump EXCEPT ![c] = StartedPump(impl)]
                        /\ UNCHANGED << buffers, strong_count >>

\* ------------------------------------------------- pump.rs, custom_pump.rs
\* buffer.split_at_mut(buffer_size / 2): the 0-based offset of a direction's
\* half and its length.
HalfLen(buffer) == Len(buffer) \div 2
HalfOff(buffer, d) == IF d = "up" THEN 0 ELSE HalfLen(buffer)

\* (mutant) the poll looks at the direction's own channel.
try_recv_own(dirs, d) == dirs[d].chan = "sent"

\* cancel_receiver.try_recv().unwrap_or(false) of direction d: true when the
\* opposite direction has sent on its channel.
try_recv(dirs, d) == dirs[Other(d)].chan = "sent"

\* cancel_sender.send(true).unwrap_or_default(): the signal is raised; the
\* Err of a send whose receiver is gone is dropped.
send(dirs, d) == "sent"

\* The direction returns: its sender, if unused, is dropped.
Returned(dir) ==
    [dir EXCEPT !.pc = "done", !.chan = IF @ = "open" THEN "closed" ELSE @]

\* The end of a loop iteration: return if the other direction has cancelled,
\* else wait again.
PollCancel(dirs, d, dir) ==
    IF try_recv(dirs, d)
    THEN Returned(dir)
    ELSE [dir EXCEPT !.pc = "select", !.timer = 1 - @]

\* The select of a read and the timer resolves with the timer.
OnTimeout(impl, dirs, d) ==
    PollCancel(dirs, d, [dirs[d] EXCEPT !.ev = "timeout"])

\* The select resolves with a read of 0 bytes.
OnEof(impl, dirs, d) ==
    IF impl = "pump"
    THEN \* pump.rs writes the empty slice first
         [dirs[d] EXCEPT !.ev = "eof", !.read = 0, !.pc = "write"]
    ELSE \* custom_pump.rs: cancel_sender.send(true); return
         [dirs[d] EXCEPT !.ev = "eof", !.read = 0, !.pc = "done", !.chan = send(dirs, d)]

\* The select resolves with a failed read.
OnReadError(impl, dirs, d) ==
    IF impl = "pump"
    THEN \* read_result.unwrap_or(0)
         [dirs[d] EXCEPT !.ev = "err", !.read = 0, !.pc = "write"]
    ELSE Returned([dirs[d] EXCEPT !.ev = "err"])

\* The select resolves with n > 0 bytes read into the direction's half.
OnData(impl, dirs, d, bytes) ==
    [dirs[d] EXCEPT !.ev = "data", !.read = Len(bytes), !.pc = "write",
                    !.rd = @ \o bytes]

\* One resolution of futures::future::select(from.read(..), timer) in
\* run_pump, and the code after it up to the next await.
PumpSelect(c, d, env) ==
    /\ conn[c].pc = "pump"
    /\ pump[c].dir[d].pc = "select"
    /\ UNCHANGED << main, cidr, endpoint_ip, conn, strong_count, call >>
    /\ LET impl == pump[c].impl
           dirs == pump[c].dir
           buf == buffers[conn[c].slot]
           got == Len(dirs[d].rd)
       IN
       \/ /\ "timeout" \in env.relay
          /\ pump' = [pump EXCEPT ![c].dir[d] = OnTimeout(impl, dirs, d)]
          /\ UNCHANGED buffers
       \/ /\ "eof" \in env.relay
          /\ pump' = [pump EXCEPT ![c].dir[d] = OnEof(impl, dirs, d)]
          /\ UNCHANGED buffers
       \/ /\ "err" \in env.relay
          /\ pump' = [pump EXCEPT ![c].dir[d] = OnReadError(impl, dirs, d)]
          /\ UNCHANGED buffers
       \/ \E n \in 1..Min(env.stream - got, HalfLen(buf)) :
            LET bytes == [i \in 1..n |-> StreamByte(d, got + i)] IN
            /\ pump' = [pump EXCEPT ![c].dir[d] = OnData(impl, dirs, d, bytes)]
            /\ buffers' = SetBuf(c, OverwriteAt(buf, HalfOff(buf, d), bytes))

\* What a write of the n bytes read may do: accept k of them, or fail after
\* k.  pump.rs calls write once; custom_pump.rs calls write_all, which
\* repeats the write until all is written or a write fails.
WriteOutcomes(impl, n) ==
    IF impl = "pump"
    THEN { [ok |-> TRUE, k |-> k] : k \in (IF n = 0 THEN {0} ELSE 1..n) }
            \cup { [ok |-> FALSE, k |-> 0] }
    ELSE { [ok |-> TRUE, k |-> n] } \cup { [ok |-> FALSE, k |-> k] : k \in 0..(n - 1) }

\* The code of run_pump after the write resolved with outcome w.
AfterWrite(impl, dirs, d, w, bytes) ==
    LET dir == [dirs[d] EXCEPT !.wr = @ \o SubSeq(bytes, 1, w.k),
                               !.write_failed = @ \/ ~w.ok]
    IN  IF impl = "pump"
        THEN \* the result of the write is dropped: unwrap_or(0)
             IF dir.read = 0
             THEN [dir EXCEPT !.pc = "done", !.chan = send(dirs, d)]
             ELSE PollCancel(dirs, d, dir)
        ELSE IF ~w.ok
             THEN Returned(dir)
             ELSE PollCancel(dirs, d, dir)

\* The write of run_pump resolves.
PumpWrite(c, d) ==
    /\ conn[c].pc = "pump"
    /\ pump[c].dir[d].pc = "write"
    /\ UNCHANGED << main, cidr, endpoint_ip, conn, strong_count, buffers, call >>
    /\ LET impl == pump[c].impl
           dirs == pump[c].dir
           buf == buffers[conn[c].slot]
           off == HalfOff(buf, d)
           bytes == Slice(buf, off, off + dirs[d].read)
       IN  \E w \in WriteOutcomes(impl, dirs[d].read) :
             pump' = [pump EXCEPT ![c].dir[d] = AfterWrite(impl, dirs, d, w, bytes)]

\* futures::future::join of the two directions is ready: start returns (the
\* Pump is consumed), the handler shuts both sockets down and ends.
PumpJoin(c) ==
    /\ conn[c].pc = "pump"
    /\ \A d \in Dirs : pump[c].dir[d].pc = "done"
    /\ UNCHANGED << main, cidr, endpoint_ip, call >>
    /\ pump' = [pump EXCEPT ![c] = NoPump]
    /\ End(c, [conn[c] EXCEPT !.client_socket = "shutdown",
                              !.endpoint_socket = "shutdown"], "End.", buffers)

\* ------------------------------------------------------------ specification
NextIn(env) ==
    \/ Accept(env)
    \/ \E c \in Conns : HandshakeRead(c, env)
    \/ \E c \in Conns : HandshakeWrite(c)
    \/ \E c \in Conns : RequestRead(c, env)
    \/ \E c \in Conns : Dial(c, env)
    \/ \E c \in Conns : ReplyWrite(c, env)
    \/ \E c \in Conns, d \in Dirs : PumpSelect(c, d, env)
    \/ \E c \in Conns, d \in Dirs : PumpWrite(c, d)
    \/ \E c \in Conns : PumpJoin(c)

Next == NextIn(HandlerEnv)

\* Clients one after another, any greeting, any request.
Spec == Init /\ [][Next]_vars

PumpInit == InitWith(PumpEnv)
PumpNext == NextIn(PumpEnv)

\* Clients that reach the relay and exchange data.
PumpSpec == PumpInit /\ [][PumpNext]_vars

\* Every wait of the relay resolves: the timer bounds the select, the
\* sockets complete or fail a write, and the join is polled when both
\* directions are done.
PumpFairness ==
    /\ \A c \in Conns, d \in Dirs : WF_vars(PumpSelect(c, d, PumpEnv))
    /\ \A c \in Conns, d \in Dirs : WF_vars(PumpWrite(c, d))
    /\ \A c \in Conns : WF_vars(PumpJoin(c))

FairPumpSpec == PumpSpec /\ PumpFairness

PoolInit == InitWith(PoolEnv)
PoolNext == NextIn(PoolEnv)

\* Overlapping clients.
PoolSpec == PoolInit /\ [][PoolNext]_vars

\* AdmitEnv: overlapping clients from any peer address, under any
\* accept_cidr, that send a CONNECT, BIND, UDP ASSOCIATE or unknown command.
AdmitEnv ==
    [ greetings |-> { << 5, 1, 0 >> },
      requests |-> { << 5, 1, 0, 1, 127, 0, 0, 1, 0, 80 >>,
                     << 5, 2, 0, 1, 127, 0, 0, 1, 0, 80 >>,
                     << 5, 3, 0, 1, 127, 0, 0, 1, 0, 80 >>,
                     << 5, 9, 0, 1, 127, 0, 0, 1, 0, 80 >> },
      oserrors |-> { 10061 },
      cidrs |-> CidrConfigs,
      endpoint_ips |-> { V4(0, 0, 0, 0) },
      peers |-> PeerIps,
      pumps |-> { "pump" },
      relay |-> { "eof" },
      stream |-> 0,
      overlap |-> TRUE ]

AdmitInit == InitWith(AdmitEnv)
AdmitNext == NextIn(AdmitEnv)

\* The acceptor with its admission filter.
AdmitSpec == AdmitInit /\ [][AdmitNext]_vars

\* LeftoverEnv: up to MaxConns clients at the same time, on fresh and on
\* reused buffers, sending a complete request or only its first 5 bytes.
LeftoverEnv ==
    [ greetings |-> { << 5, 1, 0 >> },
      requests |-> { << 5, 1, 0, 1, 127, 0, 0, 1, 0, 80 >>, << 5, 1, 0, 1, 127 >> },
      oserrors |-> { 10061 },
      cidrs |-> { [ip |-> V4(0, 0, 0, 0), bits |-> 0] },
      endpoint_ips |-> { V4(0, 0, 0, 0) },
      peers |-> { V4(10, 0, 0, 1) },
      pumps |-> { "pump" },
      relay |-> { "eof" },
      stream |-> 0,
      overlap |-> TRUE ]

LeftoverInit == InitWith(LeftoverEnv)
LeftoverNext == NextIn(LeftoverEnv)

\* Handlers on buffers with different leftover content.
LeftoverSpec == LeftoverInit /\ [][LeftoverNext]_vars

\* ------------------------------------------------------------ copy_pump.rs
\* CopyEnv: clients whose handler relays with CopyPump.
CopyEnv ==
    [ greetings |-> { << 5, 1, 0 >> },
      requests |-> { << 5, 1, 0, 1, 127, 0, 0, 1, 0, 80 >> },
      oserrors |-> { 10061 },
      cidrs |-> { [ip |-> V4(0, 0, 0, 0), bits |-> 0] },
      endpoint_ips |-> { V4(0, 0, 0, 0) },
      peers |-> { V4(10, 0, 0, 1) },
      pumps |-> { "copy_pump" },
      relay |-> { "eof", "data" },
      stream |-> MaxStream,
      overlap |-> FALSE ]

\* run_pumps_as_copy has started and awaits select(pumps, timeout).
Copying(c) == conn[c].pc = "pump" /\ pump[c].impl = "copy_pump"

\* One tick of the clock passes while run_pumps_as_copy awaits: the sleep
\* created at line 36 comes one tick nearer to its deadline, and the time
\* since the last relayed byte grows.
CopyTick(c) ==
    /\ Copying(c)
    /\ pump[c].elapsed < read_timeout
    /\ pump' = [pump EXCEPT ![c].elapsed = @ + 1,
                            ![c].idle = Min(@ + 1, read_timeout)]
    /\ UNCHANGED << main, cidr, endpoint_ip, buffers, strong_count, conn, call >>

\* tokio::io::copy of direction d reads bytes from its reader and writes
\* them to its writer; the sleep is left as it is.
CopyRelay(c, d, env) ==
    /\ Copying(c)
    /\ UNCHANGED << main, cidr, endpoint_ip, buffers, strong_count, conn, call >>
    /\ LET got == Len(pump[c].dir[d].rd) IN
       \E n \in 1..(env.stream - got) :
          LET bytes == [i \in 1..n |-> StreamByte(d, got + i)] IN
          pump' = [pump EXCEPT ![c].dir[d].rd = @ \o bytes,
                               ![c].dir[d].wr = @ \o bytes,
                               ![c].idle = 0]

\* select(pumps, timeout) resolves Left: one of the two copies returned (its
\* reader is at EOF, or a read or write failed); run_pumps_as_copy returns
\* Ok(()) and the handler ends.
CopyLeft(c) ==
    /\ Copying(c)
    /\ UNCHANGED << main, cidr, endpoint_ip, pump, call >>
    /\ End(c, [conn[c] EXCEPT !.client_socket = "shutdown",
                              !.endpoint_socket = "shutdown"], "End.", buffers)

\* select(pumps, timeout) resolves Right: the sleep has reached its deadline;
\* run_pumps_as_copy returns "Timed out.".into_error().
CopyRight(c) ==
    /\ Copying(c)
    /\ pump[c].elapsed = read_timeout
    /\ UNCHANGED << main, cidr, endpoint_ip, pump, call >>
    /\ End(c, conn[c], "Timed out.", buffers)

CopyInit == InitWith(CopyEnv)

CopyNext ==
    \/ Accept(CopyEnv)
    \/ \E c \in Conns : HandshakeRead(c, CopyEnv)
    \/ \E c \in Conns : HandshakeWrite(c)
    \/ \E c \in Conns : RequestRead(c, CopyEnv)
    \/ \E c \in Conns : Dial(c, CopyEnv)
    \/ \E c \in Conns : ReplyWrite(c, CopyEnv)
    \/ \E c \in Conns : CopyTick(c)
    \/ \E c \in Conns, d \in Dirs : CopyRelay(c, d, CopyEnv)
    \/ \E c \in Conns : CopyLeft(c)
    \/ \E c \in Conns : CopyRight(c)

\* Clients relayed by CopyPump, with the passing of time.
CopySpec == CopyInit /\ [][CopyNext]_vars

\* ------------------------------------------------- the functions of Helpers
\* u16::MAX, the largest port.
PortMax == 65535

\* Addresses and accept_cidr values the functions are called with.
CallIps ==
    { V4(0, 0, 0, 0), V4(10, 0, 0, 1), V4(10, 255, 0, 7), V4(11, 0, 0, 1),
      V4(192, 168, 1, 1), V4(255, 255, 255, 255),
      V6(0, 0), V6(0, 1), V6(253, 1), V6(254, 1) }

CallCidrs ==
    { parse_cidr(ip, n).val :
        ip \in { V4(0, 0, 0, 0), V4(10, 0, 0, 0), V4(10, 255, 0, 7),
                 V4(192, 168, 1, 1), V4(255, 255, 255, 255) },
        n \in { 0, 1, 7, 8, 9, 24, 31, 32 } }
    \cup
    { parse_cidr(ip, n).val :
        ip \in { V6(0, 0), V6(253, 0), V6(253, 1) },
        n \in { 0, 1, 7, 8, 9, 127, 128 } }

\* Byte strings handed to bytes_to_port.
CallPortBytes ==
    { << >>, << 0 >>, << 255 >>, << 0, 80 >>, << 255, 255 >>, << 1, 2, 3 >>,
      << 0, 0, 0, 80 >> }

\* Error numbers handed to get_socks_reply.
CallErrors == { 0 } \cup OsErrors \cup FamilyErrors

Calls ==
    { [fn |-> "is_ip_in_cidr", ip_addr |-> ip, cidr |-> c,
       done |-> FALSE, result |-> Err("")] : ip \in CallIps, c \in CallCidrs }
    \cup
    { [fn |-> "port_to_bytes", port |-> p, bytes |-> << >>, of_port |-> TRUE,
       done |-> FALSE, result |-> Err("")] : p \in 0..PortMax }
    \cup
    { [fn |-> "bytes_to_port", port |-> 0, bytes |-> d, of_port |-> FALSE,
       done |-> FALSE, result |-> Err("")] : d \in CallPortBytes }
    \cup
    { [fn |-> "get_socks_reply", error |-> e,
       done |-> FALSE, result |-> Err("")] : e \in CallErrors }
    \cup
    { [fn |-> "parse_cidr", ip_addr |-> ip, num_mask_bits |-> n,
       done |-> FALSE, result |-> Err("")] :
        ip \in { V4(0, 0, 0, 0), V4(10, 255, 0, 7), V4(255, 255, 255, 255) },
        n \in 0..34 }
    \cup
    { [fn |-> "parse_cidr", ip_addr |-> ip, num_mask_bits |-> n,
       done |-> FALSE, result |-> Err("")] :
        ip \in { V6(0, 0), V6(253, 1), V6(255, 255) }, n \in 0..130 }

HelperInit ==
    /\ main = "running"
    /\ cidr = parse_cidr(V4(0, 0, 0, 0), 0).val
    /\ endpoint_ip = V4(0, 0, 0, 0)
    /\ buffers = << >>
    /\ strong_count = << >>
    /\ conn = [c \in Conns |-> NoConn]
    /\ pump = [c \in Conns |-> NoPump]
    /\ call \in Calls

\* Helpers::is_ip_in_cidr(&ip_addr, &cidr) returns.
Call_is_ip_in_cidr ==
    /\ call.fn = "is_ip_in_cidr" /\ ~call.done
    /\ call' = [call EXCEPT !.done = TRUE,
                            !.result = is_ip_in_cidr(call.ip_addr, call.cidr)]
    /\ UNCHANGED << main, cidr, endpoint_ip, buffers, strong_count, conn, pump >>

\* Helpers::port_to_bytes(port) returns; its two bytes, high first, are the
\* input of bytes_to_port.
Call_port_to_bytes ==
    /\ call.fn = "port_to_bytes"
    /\ call' = [call EXCEPT !.fn = "bytes_to_port",
                            !.bytes = port_to_bytes(call.port)]
    /\ UNCHANGED << main, cidr, endpoint_ip, buffers, strong_count, conn, pump >>

\* Helpers::bytes_to_port(&bytes) returns.
Call_bytes_to_port ==
    /\ call.fn = "bytes_to_port" /\ ~call.done
    /\ call' = [call EXCEPT !.done = TRUE, !.result = bytes_to_port(call.bytes)]
    /\ UNCHANGED << main, cidr, endpoint_ip, buffers, strong_count, conn, pump >>

\* Helpers::get_socks_reply(error) returns.
Call_get_socks_reply ==
    /\ call.fn = "get_socks_reply" /\ ~call.done
    /\ call' = [call EXCEPT !.done = TRUE, !.result = Ok(get_socks_reply(call.error))]
    /\ UNCHANGED << main, cidr, endpoint_ip, buffers, strong_count, conn, pump >>

\* Helpers::parse_cidr(s) returns, s being "<ip_addr>/<num_mask_bits>".
Call_parse_cidr ==
    /\ call.fn = "parse_cidr" /\ ~call.done
    /\ call' = [call EXCEPT !.done = TRUE,
                            !.result = parse_cidr(call.ip_addr, call.num_mask_bits)]
    /\ UNCHANGED << main, cidr, endpoint_ip, buffers, strong_count, conn, pump >>

HelperNext ==
    \/ Call_is_ip_in_cidr
    \/ Call_port_to_bytes
    \/ Call_bytes_to_port
    \/ Call_get_socks_reply
    \/ Call_parse_cidr

\* Each function of Helpers, called once on each of its inputs.
HelperSpec == HelperInit /\ [][HelperNext]_vars

\* ================================================================== claims
WellFormedGreeting(g) == Len(g) >= 2 /\ g[1] = 5 /\ Len(g) >= 2 + g[2]

\* The first read of task c has returned bytes (or 0 bytes).
GreetingRead(c) ==
    /\ conn[c].pc \notin { "none", "rejected", "hs_read" }
    /\ conn[c].exit \notin { "handshake read error", "runtime dropped" }

\* The request read of task c delivered a complete CONNECT request.
ParseableConnect(c) ==
    /\ conn[c].reqmsg # << >>
    /\ Request_from_data(conn[c].reqmsg).kind = "ok"
    /\ Request_from_data(conn[c].reqmsg).command = 1

\* The handler of c is over for a reason of its own (not a failed write of
\* the reply, which the client causes, nor the end of the process).
EndedByItself(c) ==
    /\ conn[c].pc = "ended"
    /\ conn[c].exit \notin { "reply write error", "runtime dropped" }

\* The writes to the client after the method selection.
Replies(c) == SubSeq(conn[c].out, 2, Len(conn[c].out))

ReplyCodes == { 0, 1, 3, 4, 5, 6, 8 }

\* C1: for every parseable CONNECT request the handler writes exactly one
\* reply before it ends or relays, of 10 bytes (IPv4 egress address) or 22
\* bytes (IPv6), with a reply code of {0,1,3,4,5,6,8}; never zero replies.
C1_ExactlyOneReply ==
    \A c \in Conns :
        /\ Len(Replies(c)) <= 1
        /\ ( /\ WellFormedGreeting(conn[c].greeting)
             /\ ParseableConnect(c)
             /\ (EndedByItself(c) \/ conn[c].pc = "pump") ) =>
              /\ Len(Replies(c)) = 1
              /\ Len(Replies(c)[1]) = IF endpoint_ip.fam = "V4" THEN 10 ELSE 22
              /\ Replies(c)[1][2] \in ReplyCodes

\* C2: after an ill-formed greeting (version not 5, fewer bytes than
\* 2 + num_methods, or 0 bytes) nothing is ever written to the client.
C2_IllFormedGreetingSilent ==
    \A c \in Conns :
        (GreetingRead(c) /\ ~WellFormedGreeting(conn[c].greeting)) =>
            conn[c].out = << >>

\* C3: after a well-formed version 5 greeting the first write to the client
\* is exactly 05 00, it happens once, and the request is read only after it.
C3_MethodSelection ==
    \A c \in Conns :
        (GreetingRead(c) /\ WellFormedGreeting(conn[c].greeting)) =>
            /\ conn[c].out # << >> => conn[c].out[1] = << 5, 0 >>
            /\ \A i \in 2..Len(conn[c].out) : Len(conn[c].out[i]) # 2
            /\ conn[c].pc \in { "req_read", "dial", "reply_write", "pump" } =>
                  conn[c].out # << >>
            /\ conn[c].reqmsg # << >> => conn[c].out # << >>
            /\ conn[c].pc = "hs_write" => conn[c].out = << >>

C3_Witness ==
    \E c \in Conns :
        /\ conn[c].greeting = << 5, 2, 0, 2 >>
        /\ conn[c].pc = "dial"
        /\ conn[c].out = << << 5, 0 >> >>

\* The resolution or the dial of c failed.
DialFailed(c) ==
    conn[c].resolved \in { "os", "noos" } \/ conn[c].dialed \in { "os", "noos" }

FailureReplyWritten(c) ==
    \E i \in 1..Len(Replies(c)) : Replies(c)[i][2] # 0

\* C4: when resolution or dialing fails, a failure reply is written while
\* the client socket is open, then the handler ends and never relays; no
\* connection whose reply code was non-zero relays.
C4_FailureReplyThenEnd ==
    \A c \in Conns :
        /\ Live(c) => conn[c].client_socket = "open"
        /\ DialFailed(c) => conn[c].pc # "pump" /\ conn[c].exit # "End."
        /\ FailureReplyWritten(c) => conn[c].pc # "pump" /\ conn[c].exit # "End."
        /\ ( /\ WellFormedGreeting(conn[c].greeting)
             /\ ParseableConnect(c)
             /\ DialFailed(c)
             /\ EndedByItself(c)
             /\ conn[c].exit # "bind error" ) => FailureReplyWritten(c)

\* C5: a direction whose read wait ran into the idle timeout terminates.
C5_IdleTimeoutTerminates ==
    \A c \in Conns, d \in Dirs :
        pump[c].dir[d].ev = "timeout" => pump[c].dir[d].pc = "done"

\* C6: in each direction the bytes written are a prefix of the bytes read,
\* and equal to them once the direction has ended on EOF.
C6_WrittenIsPrefixOfRead ==
    \A c \in Conns, d \in Dirs :
        /\ IsPrefix(pump[c].dir[d].wr, pump[c].dir[d].rd)
        /\ (pump[c].dir[d].pc = "done" /\ pump[c].dir[d].ev = "eof") =>
              pump[c].dir[d].wr = pump[c].dir[d].rd

C8_WriteErrorTerminates ==
    \A c \in Conns, d \in Dirs :
        pump[c].dir[d].write_failed =>
            /\ pump[c].dir[d].pc = "done"
            /\ pump[c].dir[d].chan # "sent"

\* C9: once a handler has ended, on any path, its lease is released (the
\* slot counts as leased only for the live handlers that hold it) and its
\* sockets are closed.
C9_ReleasedOnEveryExit ==
    \A c \in Conns :
        conn[c].pc = "ended" =>
            /\ ~conn[c].locked
            /\ conn[c].client_socket = "closed"
            /\ conn[c].endpoint_socket \in { "none", "closed" }
            /\ strong_count[conn[c].slot] =
                  1 + Cardinality({o \in Conns : Live(o) /\ conn[o].slot = conn[c].slot})
            /\ leased_count(strong_count) = Cardinality({o \in Conns : Live(o)})

C9_Witness ==
    \E c \in Conns :
        /\ conn[c].pc = "ended"
        /\ conn[c].exit = "End."
        /\ strong_count[conn[c].slot] = 1

\* C10: no two live handlers hold a lease on the same slot.
C10_NoSharedSlot ==
    /\ \A a, b \in Conns :
          (a # b /\ Live(a) /\ Live(b)) => conn[a].slot # conn[b].slot
    /\ \A k \in 1..Len(strong_count) : strong_count[k] <= 2

\* Two live handlers, one of them on a slot it took over from an earlier
\* handler (the bytes of that handler are still in it).
C10_Witness ==
    \E a, b \in Conns :
        /\ a # b /\ Live(a) /\ Live(b)
        /\ conn[a].pc = "hs_read"
        /\ buffers[conn[a].slot] # Zeros(2 * buffer_size)

\* C11: leased_count() <= total_count() after any leases and releases, and
\* leased_count() = 0 whenever every Buffer handle handed out is dropped.
C11_LeasedAtMostTotal ==
    /\ Len(strong_count) = Len(buffers)
    /\ leased_count(strong_count) <= total_count(buffers)
    /\ (\A c \in Conns : ~Live(c)) => leased_count(strong_count) = 0

\* Two slots were allocated and leased, and every handle is dropped again.
C11_Witness ==
    /\ total_count(buffers) = 2
    /\ \A c \in Conns : conn[c].pc = "ended"
    /\ leased_count(strong_count) = 0

\* The slots without an outstanding lease: only the pool refers to them.
FreeSlots == { k \in 1..Len(strong_count) : strong_count[k] = 1 }

\* Task c is spawned in this step with a fresh lease.
Leases(c) == conn[c].pc # "hs_read" /\ conn'[c].pc = "hs_read"

\* C12: lease hands out the lowest slot without an outstanding lease and
\* leaves total_count alone when there is one; otherwise it appends exactly
\* one slot and hands that out; total_count changes in no other way.
C12_LeaseFirstFree ==
    [][ /\ total_count(buffers') >= total_count(buffers)
        /\ total_count(buffers') # total_count(buffers) =>
              /\ FreeSlots = { }
              /\ \E c \in Conns : Leases(c)
        /\ \A c \in Conns : Leases(c) =>
              IF FreeSlots # { }
              THEN /\ conn'[c].slot \in FreeSlots
                   /\ \A j \in FreeSlots : conn'[c].slot <= j
                   /\ total_count(buffers') = total_count(buffers)
              ELSE /\ conn'[c].slot = total_count(buffers) + 1
                   /\ total_count(buffers') = total_count(buffers) + 1 ]_vars

\* A handler just spawned on slot 1, which an earlier handler used, while
\* slot 2, also used before, has no lease.
C12_Witness ==
    /\ total_count(buffers) = 2
    /\ buffers[1] # Zeros(2 * buffer_size)
    /\ buffers[2] # Zeros(2 * buffer_size)
    /\ strong_count = << 2, 1 >>
    /\ \E c \in Conns : conn[c].pc = "hs_read" /\ conn[c].slot = 1

\* The address, bit by bit (most significant first), against a CIDR of its
\* family: equal to the prefix wherever the mask is set, and the prefix has
\* no bit outside the mask.
MaskedEqualsPrefix(ip, c) ==
    LET bits == OctetsToBits(ip.octets) IN
    \A i \in 1..Len(c.mask) :
        IF c.mask[i] = 1 THEN bits[i] = c.prefix[i] ELSE c.prefix[i] = 0

NonTrivial(c) == \E i \in 1..Len(c.mask) : c.mask[i] = 1

Inside(ip, c) == ~NonTrivial(c) \/ (ip.fam = c.fam /\ MaskedEqualsPrefix(ip, c))
Outside(ip, c) == NonTrivial(c) /\ ip.fam = c.fam /\ ~MaskedEqualsPrefix(ip, c)

\* The peer of task c has been through admission.
Admission(c) == conn[c].pc # "none"

\* C13: a peer outside a non-trivial CIDR (an address of the CIDR's family
\* that the check answers false for) is shut down with nothing written, no
\* buffer leased and no handler spawned, and the acceptor goes on; a peer
\* inside it, or any peer under a trivial CIDR, gets a lease and a handler.
C13_AdmissionFilter ==
    /\ [](\A c \in Conns : Admission(c) =>
            /\ Outside(conn[c].ip, cidr) =>
                  /\ conn[c].pc = "rejected"
                  /\ conn[c].exit = "shutdown at admission"
                  /\ conn[c].client_socket = "closed"
                  /\ conn[c].out = << >>
                  /\ conn[c].slot = 0
            /\ Inside(conn[c].ip, cidr) =>
                  /\ conn[c].pc # "rejected"
                  /\ conn[c].slot \in 1..total_count(buffers)
            /\ Outside(conn[c].ip, cidr) \/ Inside(conn[c].ip, cidr))
    /\ [][ \A c \in Conns :
             (conn'[c].pc = "rejected" /\ conn'[c] # conn[c]) =>
                /\ main' = "running"
                /\ buffers' = buffers
                /\ strong_count' = strong_count
                /\ \A o \in Conns \ { c } : conn'[o] = conn[o] ]_vars

\* Under 10.0.0.0/8 the peer 192.168.1.1 was turned away while the handler
\* of 10.0.0.1 is alive, and the acceptor is still running.
C13_Witness ==
    /\ main = "running"
    /\ NonTrivial(cidr)
    /\ \E a, b \in Conns :
          /\ conn[a].pc = "rejected" /\ conn[a].ip = V4(192, 168, 1, 1)
          /\ Live(b) /\ conn[b].ip = V4(10, 0, 0, 1) /\ conn[b].slot = 1

\* C14: for an address of the CIDR's family is_ip_in_cidr returns true
\* exactly when (ip AND mask) = prefix, so true for every address when the
\* mask is 0; for an address of the other family it returns an error.
C14_InCidrIffMaskedEqual ==
    (call.fn = "is_ip_in_cidr" /\ call.done) =>
        IF call.ip_addr.fam = call.cidr.fam
        THEN /\ call.result.ok
             /\ call.result.val = MaskedEqualsPrefix(call.ip_addr, call.cidr)
             /\ ~NonTrivial(call.cidr) => call.result.val
        ELSE ~call.result.ok

\* 10.255.0.7 was found inside 10.0.0.0/8.
C14_Witness ==
    /\ call.fn = "is_ip_in_cidr" /\ call.done
    /\ call.ip_addr = V4(10, 255, 0, 7)
    /\ call.cidr = parse_cidr(V4(10, 0, 0, 0), 8).val
    /\ call.result = Ok(TRUE)

\* C15: get_socks_reply maps ENETUNREACH (101), EHOSTUNREACH (113),
\* ECONNREFUSED (111) and ETIMEDOUT (110) to 3, 4, 5 and 6, like their
\* WinSock counterparts.
C15_PosixErrorsMapped ==
    (call.fn = "get_socks_reply" /\ call.done) =>
        /\ call.error \in { 101, 10051 } => call.result.val = 3
        /\ call.error \in { 113, 10065 } => call.result.val = 4
        /\ call.error \in { 111, 10061 } => call.result.val = 5
        /\ call.error \in { 110, 10060 } => call.result.val = 6

\* The resolution or the dial of c failed with an error that has no OS
\* error number.
FailedWithoutOsNumber(c) == conn[c].resolved = "noos" \/ conn[c].dialed = "noos"

\* C16: after a resolution or dial failure without OS error number the
\* reply written has code 5, and the handler ends without relaying.
C16_NoOsNumberIsCode5 ==
    \A c \in Conns :
        FailedWithoutOsNumber(c) =>
            /\ conn[c].pc # "pump" /\ conn[c].exit # "End."
            /\ ( /\ WellFormedGreeting(conn[c].greeting)
                 /\ ParseableConnect(c)
                 /\ Len(Replies(c)) >= 1 ) => Replies(c)[1][2] = 5

\* The request read of task c delivered a complete request whose command is
\* not CONNECT.
ParseableOtherCommand(c) ==
    /\ conn[c].reqmsg # << >>
    /\ Request_from_data(conn[c].reqmsg).kind = "ok"
    /\ Request_from_data(conn[c].reqmsg).command # 1

\* C17: after a parseable BIND, UDP ASSOCIATE or unknown command the
\* handler has ended with nothing written beyond the method selection, no
\* egress socket bound or dialed and no pump; the step that ends it touches
\* neither the acceptor nor any other handler nor their relays.
C17_OtherCommandsEndQuietly ==
    /\ [](\A c \in Conns : ParseableOtherCommand(c) =>
            /\ conn[c].pc = "ended"
            /\ conn[c].out = << << 5, 0 >> >>
            /\ conn[c].endpoint_socket = "none"
            /\ conn[c].bound = "none" /\ conn[c].dialed = "none"
            /\ conn[c].resolved = "none"
            /\ pump[c] = NoPump
            /\ conn[c].client_socket = "closed")
    /\ [][ \A c \in Conns :
             (ParseableOtherCommand(c)' /\ ~ParseableOtherCommand(c)) =>
                /\ main' = main
                /\ pump' = pump
                /\ \A o \in Conns \ { c } : conn'[o] = conn[o]
                /\ \A k \in 1..Len(strong_count) :
                      k # conn[c].slot => strong_count'[k] = strong_count[k] ]_vars

\* A BIND request ended its handler while another client relays and the
\* acceptor runs.
C17_Witness ==
    /\ main = "running"
    /\ \E a, b \in Conns :
          /\ conn[a].exit = "BIND requests not supported."
          /\ conn[a].reqmsg[2] = 2
          /\ conn[b].pc = "pump"

\* C18: a failed accept does not end the acceptor: main never returns
\* because of it.
C18_AcceptErrorNotFatal == main # "accept error"

\* c asked to CONNECT to a domain name, and the name resolved.
DomainResolved(c) ==
    /\ ParseableConnect(c)
    /\ Request_from_data(conn[c].reqmsg).address_type = 3
    /\ conn[c].resolved = "ok"

HasV4(addrs) == \E i \in 1..Len(addrs) : addrs[i] = "V4"

\* C19: for a domain name the handler dials the first IPv4 address of the
\* resolution; when there is none, the reply has code 8.
C19_FirstIPv4OrCode8 ==
    \A c \in Conns :
        ( /\ WellFormedGreeting(conn[c].greeting)
          /\ DomainResolved(c)
          /\ conn[c].bound = "ok" ) =>
            /\ HasV4(conn[c].addrs) => conn[c].endpoint_addr_option = "V4"
            /\ (~HasV4(conn[c].addrs) /\ Len(Replies(c)) >= 1) =>
                  Replies(c)[1][2] = 8

\* C20: bytes_to_port of the two bytes of port_to_bytes(p), high byte
\* first, is p, for every port; bytes_to_port fails on any input whose
\* length is not 2.
C20_PortRoundTrip ==
    /\ (call.fn = "bytes_to_port" /\ call.of_port) =>
          /\ Len(call.bytes) = 2
          /\ call.bytes[1] \in 0..255 /\ call.bytes[2] \in 0..255
          /\ call.bytes[1] * 256 + call.bytes[2] = call.port
          /\ call.done => call.result = Ok(call.port)
    /\ (call.fn = "bytes_to_port" /\ call.done /\ Len(call.bytes) # 2) =>
          ~call.result.ok

\* Port 1080 went through both functions as 04 38.
C20_Witness ==
    /\ call.fn = "bytes_to_port" /\ call.of_port /\ call.done
    /\ call.port = 1080
    /\ call.bytes = << 4, 56 >>
    /\ call.result = Ok(1080)

\* The request read of task c delivered fewer bytes than the variant its
\* address type names requires: 10 for IPv4, 7 + L for a domain name of
\* length L, 22 for IPv6.
TruncatedRequest(msg) ==
    /\ Len(msg) >= 1
    /\ \/ Len(msg) < 5
       \/ msg[4] = 1 /\ Len(msg) < 10
       \/ msg[4] = 3 /\ Len(msg) < 7 + msg[5]
       \/ msg[4] = 4 /\ Len(msg) < 22

\* C21: a request shorter than its variant requires is rejected as a parse
\* error, with no reply and no resolution or dial; it is never completed
\* from bytes an earlier read left in the buffer.
C21_TruncatedRequestRejected ==
    \A c \in Conns :
        (WellFormedGreeting(conn[c].greeting) /\ TruncatedRequest(conn[c].reqmsg)) =>
            /\ conn[c].pc = "ended"
            /\ conn[c].request = NoRequest
            /\ conn[c].resolved = "none" /\ conn[c].dialed = "none"
            /\ Len(Replies(c)) = 0

\* C22: a complete request whose version byte is not 5 is rejected: no
\* resolution, no dial, no relay.
C22_RequestVersionChecked ==
    \A c \in Conns :
        ( /\ WellFormedGreeting(conn[c].greeting)
          /\ conn[c].reqmsg # << >>
          /\ ~TruncatedRequest(conn[c].reqmsg)
          /\ conn[c].reqmsg[1] # 5 ) =>
            /\ conn[c].pc = "ended"
            /\ conn[c].resolved = "none" /\ conn[c].dialed = "none"
            /\ conn[c].endpoint_socket = "none"

\* The steps of handle_task in the order of its code; a handler that ends
\* early leaves from any step, and a failed resolution goes from the request
\* to the reply without a dial.
StepOrder ==
    { << "hs_read", "hs_write" >>, << "hs_write", "req_read" >>,
      << "req_read", "dial" >>, << "req_read", "reply_write" >>,
      << "dial", "reply_write" >>, << "reply_write", "pump" >> }

StepsInOrder ==
    \A c \in Conns :
        (Live(c) /\ conn'[c].pc # conn[c].pc) =>
            \/ conn'[c].pc = "ended"
            \/ << conn[c].pc, conn'[c].pc >> \in StepOrder

StepsDone ==
    \A c \in Conns :
        LET k == conn[c] IN
        /\ k.pc \in { "hs_write", "req_read", "dial", "reply_write", "pump" } =>
              k.greeting # << >>
        /\ k.pc \in { "req_read", "dial", "reply_write", "pump" } =>
              Len(k.out) >= 1 /\ k.out[1] = << 5, 0 >>
        /\ k.pc \in { "dial", "reply_write", "pump" } =>
              k.request.kind = "ok" /\ k.resolved # "none" /\ k.bound = "ok"
        /\ k.pc = "dial" => k.dialed = "none" /\ Len(k.out) = 1
        /\ k.pc = "reply_write" =>
              Len(k.out) = 1 /\ (k.resolved = "ok" => k.dialed # "none")
        /\ (k.pc = "pump" \/ k.exit = "End.") =>
              /\ k.dialed = "ok"
              /\ Len(k.out) = 2 /\ k.out[2][2] = 0
        /\ k.pc # "pump" => pump[c].dir["up"].pc \in { "idle", "done" }
        /\ k.exit = "End." => ~k.locked /\ k.client_socket = "closed"

\* C23: a handler takes its steps in the order greeting read, method
\* selection write, request read, dial, reply write, pump, shutdown and
\* release; each step finds its predecessor completed, and the pump runs
\* only after a reply with code 0 was written.
C23_StepsInOrder == []StepsDone /\ [][StepsInOrder]_vars

C23_Witness ==
    \E c \in Conns :
        /\ conn[c].exit = "End."
        /\ Len(conn[c].out) = 2 /\ conn[c].out[2][2] = 0
        /\ conn[c].dialed = "ok"

\* The address family's width in bits and the address as that many bits.
FamilyBits(ip) == IF ip.fam = "V4" THEN 32 ELSE 128
AddressBits(ip) == OctetsToBits(ip.octets)

\* C24: for every prefix length n up to the family's width parse_cidr gives
\* the mask whose n highest bits are 1 and whose other bits are 0 (0 for
\* n = 0, all ones for n = width) and the address with all but its n highest
\* bits cleared as the prefix; a longer prefix length is an error.
C24_ParseCidrMask ==
    (call.fn = "parse_cidr" /\ call.done) =>
        LET w == FamilyBits(call.ip_addr)
            n == call.num_mask_bits
            a == AddressBits(call.ip_addr)
        IN  IF n > w
            THEN ~call.result.ok
            ELSE /\ call.result.ok
                 /\ call.result.val.fam = call.ip_addr.fam
                 /\ call.result.val.mask = [i \in 1..w |-> IF i <= n THEN 1 ELSE 0]
                 /\ call.result.val.prefix = [i \in 1..w |-> IF i <= n THEN a[i] ELSE 0]

C24_Witness ==
    /\ call.fn = "parse_cidr" /\ call.done
    /\ call.ip_addr = V6(255, 255) /\ call.num_mask_bits = 0
    /\ call.result.ok /\ AllZero(call.result.val.mask)

\* The slots with an outstanding lease, as leased_count counts them.
LeasedSlots == { k \in 1..Len(strong_count) : strong_count[k] >= 2 }
LiveHandlers == { c \in Conns : Live(c) }

OneLeasePerLiveHandler ==
    /\ LeasedSlots = { conn[c].slot : c \in LiveHandlers }
    /\ Cardinality(LeasedSlots) = Cardinality(LiveHandlers)
    /\ \A c \in Conns : conn[c].pc \in { "none", "rejected" } => conn[c].slot = 0

LeaseKeptWhileLive ==
    \A c \in Conns : (Live(c) /\ conn'[c].pc \notin { "ended", "hs_read" }) =>
        /\ conn'[c].slot = conn[c].slot
        /\ strong_count'[conn[c].slot] = 2

\* C25: the slots with an outstanding lease are exactly the slots of the live
\* handlers, one each: a handler holds the lease it was spawned with until it
\* ends, and the slot of an ended handler is no longer leased on its account.
C25_OneLeasePerLiveHandler == []OneLeasePerLiveHandler /\ [][LeaseKeptWhileLive]_vars

\* One handler has ended and released its slot while another still holds its
\* own.
C25_Witness ==
    \E a, b \in Conns :
        /\ conn[a].pc = "ended" /\ Live(b)
        /\ conn[a].slot # conn[b].slot
        /\ LeasedSlots = { conn[b].slot }

\* C26: the copy pump ends with "Timed out." only when no byte was relayed
\* in either direction during the read_timeout before; while bytes keep
\* flowing the timer never ends the relay.
C26_CopyTimeoutIsIdle ==
    \A c \in Conns :
        (conn[c].exit = "Timed out." /\ pump[c].impl = "copy_pump") =>
            pump[c].idle >= read_timeout

\* C27: a reply with code 0 is written only with an established egress
\* connection, and establish_connect_request never unwraps a missing egress
\* socket.
C27_SuccessOnlyWhenConnected ==
    \A c \in Conns :
        (WellFormedGreeting(conn[c].greeting) /\ ParseableConnect(c)) =>
            /\ \A i \in 1..Len(Replies(c)) :
                  Replies(c)[i][2] = 0 =>
                      conn[c].dialed = "ok" /\ conn[c].endpoint_socket # "none"
            /\ conn[c].exit # "panic: unwrap on None"

\* The families of the peer and of the accept CIDR differ.
CrossFamily(ip, c) == NonTrivial(c) /\ ip.fam # c.fam

\* C29: under a non-trivial CIDR a peer of the other address family is
\* refused like a peer outside the CIDR, and the acceptor keeps running.
C29_CrossFamilyRefused ==
    /\ main \in { "running", "accept error" }
    /\ \A c \in Conns :
          (Admission(c) /\ CrossFamily(conn[c].ip, cidr)) =>
              conn[c].pc = "rejected" /\ conn[c].slot = 0

\* Handlers a and b have received the same bytes on their client sockets.
SameBytesReceived(a, b) ==
    /\ Admission(a) /\ Admission(b)
    /\ conn[a].pc # "rejected" /\ conn[b].pc # "rejected"
    /\ conn[a].greeting = conn[b].greeting
    /\ conn[a].reqmsg = conn[b].reqmsg
    /\ conn[a].reqmsg # << >>

\* Resolution, bind and dial gave the handlers a and b the same results.
SameSocketResults(a, b) ==
    /\ conn[a].resolved = conn[b].resolved
    /\ conn[a].addrs = conn[b].addrs
    /\ conn[a].bound = conn[b].bound
    /\ conn[a].dialed = conn[b].dialed
    /\ conn[a].error = conn[b].error

\* The request did not parse.
ParseFailed(c) == conn[c].exit \in { "panic: request slice", "request parse error" }

\* C28: two handlers that received the same bytes, on buffers with different
\* leftover content, reach the same decision on the request (the endpoint to
\* dial, or the rejection) and, given the same results of their socket
\* operations, write the same bytes to their clients.
C28_LeftoverIndependent ==
    \A a, b \in Conns :
        SameBytesReceived(a, b) =>
            /\ conn[a].request = conn[b].request
            /\ ParseFailed(a) <=> ParseFailed(b)
            /\ ( /\ SameSocketResults(a, b)
                 /\ Len(conn[a].out) = Len(conn[b].out) ) => conn[a].out = conn[b].out

====
